---------------------------- MODULE Spec2Model ----------------------------
(***************************************************************************)
(* A model of pagerank.py: transition_model, sample_pagerank,              *)
(* iterate_pagerank and pagerank_formula.                                  *)
(*                                                                         *)
(* Numbers are exact rationals [num, den] in lowest terms with den > 0:    *)
(* the properties below are properties of the arithmetic the code writes   *)
(* down, not of the rounding of a particular floating-point format.        *)
(***************************************************************************)
EXTENDS Integers, Sequences, FiniteSets, TLC

\* ------------------------------------------------------------------ bounds

\* Largest sample count n passed to sample_pagerank.
MaxSamples == 3

\* Cap on the iterations of iterate_pagerank's loop that the model follows.
MaxIterations == 12

\* The page names the corpora are built from.
Pages == {"A", "B", "C"}

\* Damping factors d = <<numerator, denominator>>, 0 < d < 1.
Dampings == {<<1, 4>>, <<1, 2>>, <<17, 20>>}

\* The sample counts tried: the negative -1, zero and 1..MaxSamples.
SampleCounts == (-1)..MaxSamples

\* ------------------------------------------------------------- arithmetic

\* Every operator on rationals first takes the values of its arguments
\* (a \in {x}) and then computes with them, so that an argument that is
\* itself a long computation is evaluated once.

Abs(x) == IF x < 0 THEN -x ELSE x

RECURSIVE GCD(_, _)
GCD(a, b) ==
    IF b = 0 THEN a
    ELSE CHOOSE g \in {GCD(y, x % y) : x \in {a}, y \in {b}} : TRUE

\* The rational n/d (d # 0) in lowest terms with a positive denominator.
Rat(n, d) ==
    LET g == GCD(Abs(n), Abs(d))
        s == IF d < 0 THEN -1 ELSE 1
    IN  [num |-> s * (n \div g), den |-> s * (d \div g)]

Zero == Rat(0, 1)

One == Rat(1, 1)

RatSum(a, b) ==
    LET g == GCD(a.den, b.den)
        l == (a.den \div g) * b.den
    IN  Rat(a.num * (l \div a.den) + b.num * (l \div b.den), l)

RatProduct(a, b) ==
    LET g1 == GCD(Abs(a.num), b.den)
        g2 == GCD(Abs(b.num), a.den)
    IN  Rat((a.num \div g1) * (b.num \div g2), (a.den \div g2) * (b.den \div g1))

RatLe(a, b) ==
    LET g == GCD(a.den, b.den)
    IN  a.num * (b.den \div g) <= b.num * (a.den \div g)

\* x + y
RAdd(x, y) == CHOOSE r \in {RatSum(a, b) : a \in {x}, b \in {y}} : TRUE

\* -x
RNeg(x) == CHOOSE r \in {[num |-> -a.num, den |-> a.den] : a \in {x}} : TRUE

\* x - y
RSub(x, y) == RAdd(x, RNeg(y))

\* x * y
RMul(x, y) == CHOOSE r \in {RatProduct(a, b) : a \in {x}, b \in {y}} : TRUE

\* 1 / y, for y # 0
RInv(y) == CHOOSE r \in {Rat(b.den, b.num) : b \in {y}} : TRUE

\* x / y, for y # 0 (the callers model the ZeroDivisionError of y = 0).
RDiv(x, y) == RMul(x, RInv(y))

\* abs(x)
RAbs(x) == CHOOSE r \in {[num |-> Abs(a.num), den |-> a.den] : a \in {x}} : TRUE

\* x <= y
RLe(x, y) == \E a \in {x}, b \in {y} : RatLe(a, b)

\* x < y
RLt(x, y) == ~RLe(y, x)

\* max(x, y)
RMax(x, y) ==
    CHOOSE r \in {IF RatLe(b, a) THEN a ELSE b : a \in {x}, b \in {y}} : TRUE

\* sum(m.values()) for a mapping m with rational values.
RECURSIVE SumOver(_, _)
SumOver(m, S) ==
    IF S = {} THEN Zero
    ELSE LET p == CHOOSE q \in S : TRUE
         IN  RAdd(m[p], SumOver(m, S \ {p}))

SumValues(m) == SumOver(m, DOMAIN m)

\* ------------------------------------------------------------------ corpus

Links(c) == UNION {c[p] : p \in DOMAIN c}

WellFormed(c) == Links(c) \subseteq DOMAIN c

\* crawl, line 39: a page's links never include the page itself.
NoSelfLinks(c) == \A p \in DOMAIN c : p \notin c[p]

\* A corpus maps each of its pages (its keys) to the set of pages it links
\* to.  Links may name pages that are no key: such a corpus is malformed.
\* The empty corpus is one of them.
AnyCorpora == UNION {[K -> SUBSET Pages] : K \in SUBSET Pages}

\* The corpora without a page that links to itself, as crawl builds them.
Corpora == {c \in AnyCorpora : NoSelfLinks(c)}

\* The empty mapping {}.
EmptyMap == [p \in {} |-> Zero]

\* ------------------------------------------------------- transition_model

\* Lines 62-68: every key and every link target starts at 0.
InitialOutput(c) == [p \in DOMAIN c \cup Links(c) |-> Zero]

\* Lines 71-74 without the else branch of lines 75-78: a page without links
\* hands out no damping share.
DampingPassLinksOnly(c, page, d, out) ==
    [p \in DOMAIN out |->
        IF p \in c[page]
        THEN RAdd(out[p], RDiv(d, Rat(Cardinality(c[page]), 1)))
        ELSE out[p]]

\* Lines 71-78: the damping share, over the links of the page or, for a
\* page without links, over every page of the output.
DampingPass(c, page, d, out) ==
    IF Cardinality(c[page]) # 0
    THEN LET average == RDiv(d, Rat(Cardinality(c[page]), 1))
         IN  [p \in DOMAIN out |->
                 IF p \in c[page] THEN RAdd(out[p], average) ELSE out[p]]
    ELSE LET average == RDiv(d, Rat(Cardinality(DOMAIN out), 1))
         IN  [p \in DOMAIN out |-> RAdd(out[p], average)]

\* Lines 81-83: the uniform share of 1 - d.
UniformPass(d, out) ==
    LET average == RDiv(RSub(One, d), Rat(Cardinality(DOMAIN out), 1))
    IN  [p \in DOMAIN out |-> RAdd(out[p], average)]

\* transition_model(corpus, page, damping_factor), for page a key of corpus
\* (corpus[page] raises KeyError otherwise: the callers model that).
transition_model(c, page, d) ==
    UniformPass(d, DampingPass(c, page, d, InitialOutput(c)))

\* ------------------------------------------------------------------- state

VARIABLES
    pc,              \* where the running call stands; "idle" before a call
    corpus,          \* the corpus argument
    damping_factor,  \* the damping_factor argument, a rational
    n,               \* sample_pagerank's n
    page,            \* the current page of transition_model / the walk
    samples,         \* sample_pagerank's list of samples
    prob_distri,     \* sample_pagerank's current transition distribution
    i,               \* sample_pagerank's loop index
    output,          \* the mapping returned by the call, once returned
    ranks,           \* iterate_pagerank's ranks
    new_rank,        \* iterate_pagerank's new_rank
    reverse,         \* iterate_pagerank's reverse index
    max_val,         \* iterate_pagerank's max_val
    sum_rank,        \* iterate_pagerank's sum_rank
    iterations,      \* completed iterations of the convergence loop
    error            \* the exception that ended the call, "" if none

vars == <<pc, corpus, damping_factor, n, page, samples, prob_distri, i,
          output, ranks, new_rank, reverse, max_val, sum_rank, iterations,
          error>>

sampleVars == <<n, samples, prob_distri, i>>

iterVars == <<ranks, new_rank, reverse, max_val, sum_rank, iterations>>

Init ==
    /\ pc = "idle"
    /\ corpus = EmptyMap
    /\ damping_factor = Zero
    /\ n = 0
    /\ page = ""
    /\ samples = <<>>
    /\ prob_distri = EmptyMap
    /\ i = 0
    /\ output = EmptyMap
    /\ ranks = EmptyMap
    /\ new_rank = EmptyMap
    /\ reverse = EmptyMap
    /\ max_val = Zero
    /\ sum_rank = Zero
    /\ iterations = 0
    /\ error = ""

\* -------------------------------------------------- transition_model call

\* A call transition_model(c, p, d) on a non-empty corpus c with p one of
\* its keys: the whole function, lines 60-84.
TransitionCall ==
    /\ pc = "idle"
    /\ \E c \in AnyCorpora, d \in Dampings :
          \E p \in DOMAIN c :
              /\ corpus' = c
              /\ page' = p
              /\ damping_factor' = Rat(d[1], d[2])
              /\ output' = transition_model(c, p, Rat(d[1], d[2]))
    /\ pc' = "transition_done"
    /\ UNCHANGED <<sampleVars, iterVars, error>>

NextTransition == TransitionCall

SpecTransition == Init /\ [][NextTransition]_vars

\* ---------------------------------------------------------- sample_pagerank

\* samples.count(name)
Count(seq, name) == Cardinality({k \in 1..Len(seq) : seq[k] = name})

\* range(n) in place of range(n-1): one draw too many.
WalkLengthOneMore(cnt) == cnt

\* Line 105: range(n-1), the number of draws after the first sample.
WalkLength(cnt) == cnt - 1

\* The pages random.choices can return: those of positive weight.
Choices(distri) == {p \in DOMAIN distri : RLt(Zero, distri[p])}

\* A call sample_pagerank(c, d, cnt).
SampleCall ==
    /\ pc = "idle"
    /\ \E c \in Corpora, d \in Dampings, cnt \in SampleCounts :
          /\ corpus' = c
          /\ damping_factor' = Rat(d[1], d[2])
          /\ n' = cnt
    /\ pc' = "sample_first"
    /\ UNCHANGED <<page, samples, prob_distri, i, output, iterVars, error>>

\* Lines 100-101 on an empty corpus: random.randint(0, -1) raises ValueError.
SampleFirstEmpty ==
    /\ pc = "sample_first"
    /\ DOMAIN corpus = {}
    /\ error' = "ValueError"
    /\ pc' = "error"
    /\ UNCHANGED <<corpus, damping_factor, page, sampleVars, output, iterVars>>

\* Lines 96-104: the first sample, any key of the corpus, and its
\* transition distribution.
SampleFirst ==
    /\ pc = "sample_first"
    /\ \E p \in DOMAIN corpus :
          /\ page' = p
          /\ samples' = <<p>>
          /\ prob_distri' = transition_model(corpus, p, damping_factor)
    /\ i' = 0
    /\ pc' = "sample_loop"
    /\ UNCHANGED <<corpus, damping_factor, n, output, iterVars, error>>

\* Lines 105-108, one pass of the loop: the draw is a key of the corpus.
SampleStep ==
    /\ pc = "sample_loop"
    /\ i < WalkLength(n)
    /\ \E p \in Choices(prob_distri) :
          /\ p \in DOMAIN corpus
          /\ page' = p
          /\ samples' = Append(samples, p)
          /\ prob_distri' = transition_model(corpus, p, damping_factor)
    /\ i' = i + 1
    /\ UNCHANGED <<pc, corpus, damping_factor, n, output, iterVars, error>>

\* Lines 105-108, one pass of the loop: the draw is no key of the corpus,
\* and corpus[page] at line 71 raises KeyError.
SampleStepUnknown ==
    /\ pc = "sample_loop"
    /\ i < WalkLength(n)
    /\ \E p \in Choices(prob_distri) :
          /\ p \notin DOMAIN corpus
          /\ page' = p
          /\ samples' = Append(samples, p)
    /\ error' = "KeyError"
    /\ pc' = "error"
    /\ UNCHANGED <<corpus, damping_factor, n, prob_distri, i, output, iterVars>>

\* Lines 111-112 with n = 0: the division by float(n) raises
\* ZeroDivisionError.
SampleOrganizeZero ==
    /\ pc = "sample_loop"
    /\ ~(i < WalkLength(n))
    /\ n = 0
    /\ error' = "ZeroDivisionError"
    /\ pc' = "error"
    /\ UNCHANGED <<corpus, damping_factor, page, sampleVars, output, iterVars>>

\* Lines 111-114: the counts over n, returned.
SampleOrganize ==
    /\ pc = "sample_loop"
    /\ ~(i < WalkLength(n))
    /\ n # 0
    /\ output' = [name \in DOMAIN corpus |-> Rat(Count(samples, name), n)]
    /\ pc' = "sample_done"
    /\ UNCHANGED <<corpus, damping_factor, page, sampleVars, iterVars, error>>

NextSample ==
    \/ SampleCall
    \/ SampleFirstEmpty
    \/ SampleFirst
    \/ SampleStep
    \/ SampleStepUnknown
    \/ SampleOrganizeZero
    \/ SampleOrganize

SpecSample == Init /\ [][NextSample]_vars

\* --------------------------------------------------------- iterate_pagerank

\* Damping factors tried on iterate_pagerank with every corpus.
IterDampings == {<<1, 4>>, <<1, 2>>}

\* Corpora in which every page has as many links as pages linking to it,
\* the same number for every page: a cycle, a complete graph, pages without
\* any link.
Regular(c) ==
    \E k \in 0..Cardinality(DOMAIN c) :
        \A p \in DOMAIN c :
            /\ Cardinality(c[p]) = k
            /\ Cardinality({q \in DOMAIN c : p \in c[q]}) = k

\* The calls of iterate_pagerank tried: every corpus with the damping
\* factors of IterDampings, and the regular corpora with every damping
\* factor.
IterateInputs ==
    {in \in Corpora \X Dampings : in[2] \in IterDampings \/ Regular(in[1])}

\* Line 142: the convergence threshold 0.001.
Threshold == Rat(1, 1000)

\* Line 130: every page starts at 1 / len(corpus).
InitialRanks(c) == [p \in DOMAIN c |-> Rat(1, Cardinality(DOMAIN c))]

\* reverse[key].add(i) in place of reverse[i].add(key): the index is not
\* reversed.
ReverseIndexForward(c) == [p \in DOMAIN c |-> c[p]]

\* Lines 133-139 on a well-formed corpus: reverse[i] holds every key that
\* lists i among its links.
ReverseIndex(c) == [p \in DOMAIN c |-> {key \in DOMAIN c : p \in c[key]}]

\* Line 172 raises ZeroDivisionError when a page of reverse[page] has no
\* links: whether every divisor len(corpus[link]) is non-zero.
FormulaDivides(c, p, rev) == \A link \in rev[p] : Cardinality(c[link]) # 0

\* Lines 169-172: the sum of ranks[link] / len(corpus[link]) over links.
RECURSIVE IndRank(_, _, _)
IndRank(c, rk, links) ==
    IF links = {} THEN Zero
    ELSE LET link == CHOOSE q \in links : TRUE
         IN  RAdd(RDiv(rk[link], Rat(Cardinality(c[link]), 1)),
                  IndRank(c, rk, links \ {link}))

\* pagerank_formula(corpus, page, d, ranks, reverse), lines 164-177.
pagerank_formula(c, p, d, rk, rev) ==
    RAdd(RDiv(RSub(One, d), Rat(Cardinality(DOMAIN c), 1)),
         RMul(d, IndRank(c, rk, rev[p])))

\* new_rank read where it already has the page (a Gauss-Seidel update).
FormulaRanksInPlace(rk, new) ==
    [q \in DOMAIN rk |-> IF q \in DOMAIN new THEN new[q] ELSE rk[q]]

\* Line 145: the ranks mapping handed to pagerank_formula.
FormulaRanks(rk, new) == rk

\* Lines 151-152 left out: the new ranks are not divided by their sum.
NormaliseSkipped(new, total) == new

\* Lines 149-152: every value times 1 / sum_rank.
Normalise(new, total) == [p \in DOMAIN new |-> RMul(new[p], RDiv(One, total))]

\* Lines 155-157: the largest |new_rank[page] - ranks[page]|, from 0.
RECURSIVE MaxDiffOver(_, _, _)
MaxDiffOver(new, rk, S) ==
    IF S = {} THEN Zero
    ELSE LET p == CHOOSE q \in S : TRUE
         IN  RMax(RAbs(RSub(new[p], rk[p])), MaxDiffOver(new, rk, S \ {p}))

MaxDiff(new, rk) == MaxDiffOver(new, rk, DOMAIN rk)

\* max_val < 0.001 in place of max_val > 0.001.
ContinueReversed(mv) == RLt(mv, Threshold)

\* max_val > 0.01 in place of max_val > 0.001.
ContinueCoarse(mv) == RLt(Rat(1, 100), mv)

\* Line 142: the loop condition.
Continue(mv) == RLt(Threshold, mv)

\* A call iterate_pagerank(c, d).
IterateCall ==
    /\ pc = "idle"
    /\ \E in \in IterateInputs :
          /\ corpus' = in[1]
          /\ damping_factor' = Rat(in[2][1], in[2][2])
    /\ pc' = "iterate_init"
    /\ UNCHANGED <<page, sampleVars, output, iterVars, error>>

\* Lines 126-139 on a corpus with a link to a page that is no key:
\* reverse[i] at line 138 raises KeyError.
IterateInitUnknown ==
    /\ pc = "iterate_init"
    /\ ~WellFormed(corpus)
    /\ ranks' = InitialRanks(corpus)
    /\ error' = "KeyError"
    /\ pc' = "error"
    /\ UNCHANGED <<corpus, damping_factor, page, sampleVars, output,
                   new_rank, reverse, max_val, sum_rank, iterations>>

\* Lines 126-141: the initial ranks, the reverse index, max_val = 1.
IterateInit ==
    /\ pc = "iterate_init"
    /\ WellFormed(corpus)
    /\ ranks' = InitialRanks(corpus)
    /\ new_rank' = EmptyMap
    /\ reverse' = ReverseIndex(corpus)
    /\ max_val' = One
    /\ pc' = "iterate_while"
    /\ UNCHANGED <<corpus, damping_factor, page, sampleVars, output,
                   sum_rank, iterations, error>>

\* Lines 142-143: the loop condition holds, a new iteration starts.
IterateLoop ==
    /\ pc = "iterate_while"
    /\ Continue(max_val)
    /\ iterations < MaxIterations
    /\ new_rank' = EmptyMap
    /\ pc' = "iterate_formula"
    /\ UNCHANGED <<corpus, damping_factor, page, sampleVars, output,
                   ranks, reverse, max_val, sum_rank, iterations, error>>

\* Lines 144-145 for one page: its new rank, or the ZeroDivisionError of
\* line 172.  The pages are taken in the order of the corpus's keys, which
\* is any order.
IterateFormula ==
    /\ pc = "iterate_formula"
    /\ \E p \in DOMAIN ranks \ DOMAIN new_rank :
          LET divides == FormulaDivides(corpus, p, reverse) IN
          /\ new_rank' =
                IF divides
                THEN [q \in DOMAIN new_rank \cup {p} |->
                         IF q = p
                         THEN pagerank_formula(corpus, p, damping_factor,
                                  FormulaRanks(ranks, new_rank), reverse)
                         ELSE new_rank[q]]
                ELSE new_rank
          /\ error' = IF divides THEN error ELSE "ZeroDivisionError"
          /\ pc' = IF divides THEN pc ELSE "error"
    /\ UNCHANGED <<corpus, damping_factor, page, sampleVars, output, ranks,
                   reverse, max_val, sum_rank, iterations>>

\* Lines 148-149 when the new ranks sum to 0: 1.0000 / sum_rank raises
\* ZeroDivisionError.
IterateNormaliseZero ==
    /\ pc = "iterate_formula"
    /\ DOMAIN new_rank = DOMAIN ranks
    /\ sum_rank' = SumValues(new_rank)
    /\ sum_rank' = Zero
    /\ error' = "ZeroDivisionError"
    /\ pc' = "error"
    /\ UNCHANGED <<corpus, damping_factor, page, sampleVars, output, ranks,
                   new_rank, reverse, max_val, iterations>>

\* Lines 148-152: the new ranks divided by their sum.
IterateNormalise ==
    /\ pc = "iterate_formula"
    /\ DOMAIN new_rank = DOMAIN ranks
    /\ sum_rank' = SumValues(new_rank)
    /\ sum_rank' # Zero
    /\ new_rank' = Normalise(new_rank, sum_rank')
    /\ pc' = "iterate_maxdiff"
    /\ UNCHANGED <<corpus, damping_factor, page, sampleVars, output, ranks,
                   reverse, max_val, iterations, error>>

\* Lines 155-157: the largest change of a page's rank.
IterateMaxDiff ==
    /\ pc = "iterate_maxdiff"
    /\ max_val' = MaxDiff(new_rank, ranks)
    /\ pc' = "iterate_copy"
    /\ UNCHANGED <<corpus, damping_factor, page, sampleVars, output, ranks,
                   new_rank, reverse, sum_rank, iterations, error>>

\* Line 159: the new ranks become the ranks of the next iteration.
IterateCopy ==
    /\ pc = "iterate_copy"
    /\ ranks' = new_rank
    /\ iterations' = iterations + 1
    /\ pc' = "iterate_while"
    /\ UNCHANGED <<corpus, damping_factor, page, sampleVars, output,
                   new_rank, reverse, max_val, sum_rank, error>>

\* Lines 142 and 161: the loop condition fails, new_rank is returned.
IterateReturn ==
    /\ pc = "iterate_while"
    /\ ~Continue(max_val)
    /\ output' = new_rank
    /\ pc' = "iterate_done"
    /\ UNCHANGED <<corpus, damping_factor, page, sampleVars, iterVars, error>>

\* The steps of a call of iterate_pagerank that is under way.
IterateRun ==
    \/ IterateInitUnknown
    \/ IterateInit
    \/ IterateLoop
    \/ IterateFormula
    \/ IterateNormaliseZero
    \/ IterateNormalise
    \/ IterateMaxDiff
    \/ IterateCopy
    \/ IterateReturn

NextIterate ==
    \/ IterateCall
    \/ IterateRun

SpecIterate == Init /\ [][NextIterate]_vars

\* The interpreter runs a call to its end: while the call has a next step,
\* the step is taken.
FairIterate == SpecIterate /\ WF_vars(IterateRun)

\* ------------------------------------------------------------ all the calls

Next == NextTransition \/ NextSample \/ NextIterate

Spec == Init /\ [][Next]_vars

\* ------------------------------------------------------------------ claims

\* A mapping over exactly the pages of c, every value in [0,1], summing to 1.
IsDistribution(m, c) ==
    /\ DOMAIN m = DOMAIN c
    /\ \A p \in DOMAIN m : RLe(Zero, m[p]) /\ RLe(m[p], One)
    /\ SumValues(m) = One

\* The calls the contracts are about: a non-empty corpus whose links are
\* all keys.
ValidCorpus == DOMAIN corpus # {} /\ WellFormed(corpus)

Dangling(p) == corpus[p] = {}

\* C1: for a non-empty corpus (malformed ones included), a page that is one
\* of its keys and d in (0,1), the values of transition_model's mapping are
\* non-negative and sum to exactly 1, for a page with links and for a page
\* without.
C1_TransitionSumsToOne ==
    pc = "transition_done" =>
        /\ SumValues(output) = One
        /\ \A p \in DOMAIN output : RLe(Zero, output[p])

\* A dangling page of a corpus that has another page, with a link to a
\* page that is no key.
C1_DanglingCase ==
    /\ pc = "transition_done"
    /\ Dangling(page)
    /\ Cardinality(DOMAIN corpus) = 2
    /\ ~WellFormed(corpus)

\* C2: on a valid corpus with n >= 1, sample_pagerank does not fail, every
\* sample is a key of the corpus, and the mapping returned has exactly the
\* corpus keys, values count/n, n samples, counts summing to n and values
\* summing to 1, whatever pages the walk draws.
C2_SampleCountsPartition ==
    (ValidCorpus /\ n >= 1) =>
        /\ pc # "error"
        /\ \A k \in 1..Len(samples) : samples[k] \in DOMAIN corpus
        /\ pc = "sample_done" =>
              /\ DOMAIN output = DOMAIN corpus
              /\ Len(samples) = n
              /\ \A p \in DOMAIN corpus : output[p] = Rat(Count(samples, p), n)
              /\ SumValues([p \in DOMAIN corpus |-> Rat(Count(samples, p), 1)])
                     = Rat(n, 1)
              /\ SumValues(output) = One

\* A walk of at least two samples over three pages, one of them never
\* visited, one of them dangling.
C2_WalkReturned ==
    /\ pc = "sample_done"
    /\ ValidCorpus
    /\ n >= 2
    /\ Cardinality(DOMAIN corpus) = 3
    /\ \E p \in DOMAIN corpus : Count(samples, p) = 0
    /\ \E p \in DOMAIN corpus : Dangling(p) /\ Count(samples, p) > 0

\* The program points of iterate_pagerank's loop.
InLoop == pc \in {"iterate_while", "iterate_formula", "iterate_maxdiff",
                  "iterate_copy"}

\* C3: on a valid corpus, the mapping iterate_pagerank returns, and the rank
\* mapping at the end of every iteration, has exactly the corpus keys, values
\* in [0,1] and sum 1.
C3_IterateDistribution ==
    ValidCorpus =>
        /\ pc = "iterate_done" => IsDistribution(output, corpus)
        /\ pc \in {"iterate_maxdiff", "iterate_copy"} =>
              IsDistribution(new_rank, corpus)
        /\ (pc = "iterate_while" /\ iterations >= 1) =>
              IsDistribution(new_rank, corpus) /\ IsDistribution(ranks, corpus)

\* A return after two iterations or more on three pages, one dangling, one
\* not, with ranks that differ.
C3_ReturnedAfterIterations ==
    /\ pc = "iterate_done"
    /\ ValidCorpus
    /\ iterations >= 2
    /\ Cardinality(DOMAIN corpus) = 3
    /\ \E p, q \in DOMAIN corpus :
          Dangling(p) /\ ~Dangling(q) /\ output[p] # output[q]

\* C4: sample_pagerank with n <= 0 or an empty corpus, and iterate_pagerank
\* with an empty corpus, return no mapping: no call with such an input
\* reaches its return.
C4_RejectsInvalidInput ==
    /\ pc = "sample_done" => (n >= 1 /\ DOMAIN corpus # {})
    /\ pc = "iterate_done" => DOMAIN corpus # {}

\* C5: with a link to a page that is no key of the corpus, no call ends in
\* a KeyError, no mapping returned has the unknown page as a key, and the
\* walk never visits it.
C5_UnknownTargetsHandled ==
    ~WellFormed(corpus) =>
        /\ error # "KeyError"
        /\ DOMAIN output \subseteq DOMAIN corpus
        /\ \A k \in 1..Len(samples) : samples[k] \in DOMAIN corpus

\* The corpus of one page without links.
SinglePage == Cardinality(DOMAIN corpus) = 1 /\ \A p \in DOMAIN corpus : Dangling(p)

\* C6: on the corpus of one page without links, iterate_pagerank returns
\* after exactly one iteration, whose largest change is 0, with rank 1 for
\* the page; sample_pagerank with n >= 1 returns rank 1 for the page; neither
\* fails.
C6_SinglePageRankOne ==
    SinglePage =>
        /\ pc = "iterate_done" =>
              /\ iterations = 1
              /\ max_val = Zero
              /\ output = [p \in DOMAIN corpus |-> One]
        /\ (pc = "sample_done" /\ n >= 1) =>
              output = [p \in DOMAIN corpus |-> One]
        /\ pc = "error" => (samples # <<>> /\ n = 0)

\* iterate_pagerank has returned on the corpus of one page without links.
C6_SinglePageReturned == pc = "iterate_done" /\ SinglePage

\* The corpus A -> B, B -> A.
TwoCycle(c) ==
    /\ Cardinality(DOMAIN c) = 2
    /\ \A p \in DOMAIN c : c[p] = DOMAIN c \ {p}

\* The corpus A -> B -> C -> A: three pages, one link each, each page linked
\* to by one page, none by itself.
ThreeCycle(c) ==
    /\ Cardinality(DOMAIN c) = 3
    /\ \A p \in DOMAIN c :
          /\ Cardinality(c[p]) = 1
          /\ p \notin c[p]
          /\ Cardinality({q \in DOMAIN c : p \in c[q]}) = 1

\* C7: on the two-page cycle and on the three-page cycle iterate_pagerank
\* returns a rank for every page, the same for all, within 0.001 of 1/2 and
\* of 1/3.
C7_CyclesRankEqually ==
    (pc = "iterate_done" /\ (TwoCycle(corpus) \/ ThreeCycle(corpus))) =>
        /\ DOMAIN output = DOMAIN corpus
        /\ \A p, q \in DOMAIN output : output[p] = output[q]
        /\ \A p \in DOMAIN output :
              RLe(RAbs(RSub(output[p], Rat(1, Cardinality(DOMAIN corpus)))),
                  Rat(1, 1000))

\* iterate_pagerank has returned on the three-page cycle with d = 17/20.
C7_ThreeCycleReturned ==
    /\ pc = "iterate_done"
    /\ ThreeCycle(corpus)
    /\ damping_factor = Rat(17, 20)

\* The update of the recurrence for page p from the complete mapping prev:
\* (1-d)/N + d * (sum over the q that link to p of prev[q] / |corpus[q]|).
JacobiUpdate(c, d, prev, p) ==
    LET share == [q \in DOMAIN c |->
                     IF c[q] = {} THEN Zero
                     ELSE RDiv(prev[q], Rat(Cardinality(c[q]), 1))]
    IN  RAdd(RDiv(RSub(One, d), Rat(Cardinality(DOMAIN c), 1)),
             RMul(d, SumOver(share, {q \in DOMAIN c : p \in c[q]})))

JacobiStep(c, d, prev) ==
    LET raw == [p \in DOMAIN c |-> JacobiUpdate(c, d, prev, p)]
    IN  [p \in DOMAIN c |-> RDiv(raw[p], SumValues(raw))]

\* C8: the update is synchronous.  While the new ranks are computed each
\* is the update of the recurrence from the ranks of the previous iteration
\* (1/N each in the first iteration); once normalised, the new mapping is
\* that update divided by its sum over all pages; the previous mapping is
\* still what it was; it is replaced by the complete new mapping only at
\* the end of the iteration.
C8_SynchronousUpdate ==
    ValidCorpus =>
        /\ (InLoop /\ iterations = 0) => ranks = InitialRanks(corpus)
        /\ pc = "iterate_formula" =>
              \A p \in DOMAIN new_rank :
                  new_rank[p] = JacobiUpdate(corpus, damping_factor, ranks, p)
        /\ pc \in {"iterate_maxdiff", "iterate_copy"} =>
              new_rank = JacobiStep(corpus, damping_factor, ranks)
        /\ (pc = "iterate_while" /\ iterations >= 1) => ranks = new_rank

\* A second or later iteration, normalised, on three pages where a page
\* links to a page and the ranks are not all equal.
C8_LaterIteration ==
    /\ pc = "iterate_copy"
    /\ ValidCorpus
    /\ iterations >= 1
    /\ Cardinality(DOMAIN corpus) = 3
    /\ \E p, q \in DOMAIN corpus : ranks[p] # ranks[q]
    /\ new_rank # ranks

\* C9: on a valid corpus the loop terminates; it returns only after at
\* least one iteration, when the largest change of the last iteration is
\* at most 0.001; every iteration before the last had a larger one; the
\* change is the largest |new rank - previous rank| over the pages; and
\* what is returned is the normalised mapping of the last iteration.
C9_TerminatesAtThreshold ==
    /\ (pc = "iterate_init" /\ ValidCorpus) ~> (pc = "iterate_done")
    /\ [](ValidCorpus =>
            /\ pc = "iterate_done" =>
                  /\ iterations >= 1
                  /\ RLe(max_val, Rat(1, 1000))
                  /\ output = new_rank
                  /\ output = ranks
            /\ (pc \in {"iterate_formula", "iterate_maxdiff"}) =>
                  ~RLe(max_val, Rat(1, 1000))
            /\ pc = "iterate_copy" =>
                  /\ \A p \in DOMAIN ranks :
                        RLe(RAbs(RSub(new_rank[p], ranks[p])), max_val)
                  /\ \E p \in DOMAIN ranks :
                        RAbs(RSub(new_rank[p], ranks[p])) = max_val
                  /\ new_rank = JacobiStep(corpus, damping_factor, ranks))

\* A return after three iterations or more, the last with a change that is
\* not 0.
C9_ReturnedAfterSeveral ==
    /\ pc = "iterate_done"
    /\ ValidCorpus
    /\ iterations >= 3
    /\ max_val # Zero

\* C10: on a valid corpus no division of iterate_pagerank has a zero
\* divisor: no call fails; every page q of reverse[p] has p among its links,
\* so has a link; a page without links is in no entry of reverse; and the
\* sum the new ranks are divided by is positive in every iteration.
C10_NoZeroDivisor ==
    ValidCorpus =>
        /\ pc # "error"
        /\ InLoop =>
              /\ DOMAIN reverse = DOMAIN corpus
              /\ \A p \in DOMAIN reverse : \A q \in reverse[p] :
                    /\ q \in DOMAIN corpus
                    /\ p \in corpus[q]
                    /\ Cardinality(corpus[q]) >= 1
              /\ \A q \in DOMAIN corpus :
                    Dangling(q) => \A p \in DOMAIN reverse : q \notin reverse[p]
        /\ (pc \in {"iterate_maxdiff", "iterate_copy"}
                \/ (InLoop /\ iterations >= 1)) =>
              RLt(Zero, sum_rank)

\* An iteration normalised on a corpus with a page without links and a page
\* with one.
C10_DanglingNormalised ==
    /\ pc = "iterate_copy"
    /\ ValidCorpus
    /\ \E p, q \in DOMAIN corpus : Dangling(p) /\ ~Dangling(q)

=============================================================================
